---- MODULE Spec2Model ----
(***************************************************************************)
(* Box-detail page of penyelamat-pangan (BoxDetailPage): two polled        *)
(* sources (/data and /predict), their completion handlers and the         *)
(* 30-second poll loop of the mount effect.                                *)
(*                                                                         *)
(* Each synchronous segment of the component's code is one action: the     *)
(* effect body at mount, the interval callback, the continuation of each   *)
(* fetch after its await (try-success/catch + finally), the effect         *)
(* cleanup.  Time is a stopwatch restarted at every timer firing; every    *)
(* pending request carries its age, and axios settles it with a timeout    *)
(* error once the age reaches the configured timeout.                      *)
(***************************************************************************)
EXTENDS Integers, Sequences, FiniteSets, TLC

\* ---------------------------------------------------------------- bounds
\* number of poll cycles (mount included) the model follows
MaxTicks == 3
\* granularity of the clock, in milliseconds
StepMs == 5000

\* ------------------------------------------------------ program constants
\* axios.create({ timeout: 10_000 })
timeoutMs == 10000
\* setInterval(..., 30_000)
intervalMs == 30000

\* ------------------------------------------------------------ data values
\* useState<string | null>(null), useState<PredictResponse | null>(null)
NullMsg == "null"
NullPredict == [null |-> TRUE]

\* a SensorRow; the timestamp grows with the id
SensorRow(i) ==
  [id |-> i, temperatureC |-> 20 + i, humidity |-> 60 + i,
   ppm_nh3 |-> i, ppm_co2 |-> 400 + i, ppm_c2h5oh |-> 2 * i, timestamp |-> 100 * i]

\* 2xx bodies of GET /data: rows newest first, an empty row set, and a body
\* without the data array
DataBodies ==
  { [count |-> 2, data |-> <<SensorRow(2), SensorRow(1)>>],
    [count |-> 1, data |-> <<SensorRow(3)>>],
    [count |-> 0, data |-> <<>>],
    [count |-> 0] }

\* 2xx bodies of GET /predict, the last one without the prediction object.
\* probability is held in 1/10000 and rsl_hours in tenths of an hour, so
\* that fractions stay integers.
PredictBodies ==
  { [status |-> "success",
     prediction |-> [classification |-> "Fresh", probability |-> 8734, confidence |-> 91,
                     raw_prediction |-> [rsl_hours |-> 300]]],
    [status |-> "success",
     prediction |-> [classification |-> "Spoiled", probability |-> 120, confidence |-> 55,
                     raw_prediction |-> [rsl_hours |-> 0]]],
    [status |-> "error"] }

\* AxiosError.message of a request that timed out, and of the other failures
TimeoutMsg == "timeout of 10000ms exceeded"
TransportMsgs == {"Network Error", "Request failed with status code 500"}

VARIABLES
  phase,           \* "rendered" (before the effect ran), "mounted", "unmounted"
  interval,        \* TRUE while the setInterval timer is armed
  clock,           \* milliseconds since the timer was armed or last fired
  dataRows,        \* useState<SensorRow[]>([])
  loadingData,     \* useState(true)
  predict,         \* useState<PredictResponse | null>(null)
  loadingPredict,  \* useState(true)
  errorMsg,        \* useState<string | null>(null)
  pendingData,     \* GET /data requests in flight: sequence of [age, tick]
  pendingPredict,  \* GET /predict requests in flight
  dataCalls,       \* number of GET /data requests issued so far
  predictCalls,    \* number of GET /predict requests issued so far
  ticks,           \* number of poll cycles started (the mount is the first)
  cur,             \* history: the current poll cycle
  lastFail,        \* history: source and message of the last settled failure
  lastEvent,       \* history: the step taken last
  atTeardown,      \* history: the view state when the cleanup ran
  lastOk,          \* history: the body of the last 2xx response of each source
  showBoxDropdown, \* useState(true)
  shown,           \* the derived helpers as computed by the last render
  \* the Dashboard page
  boxes,             \* useState<BoxData[]>([]): sequence of [id, description]
  showAddModal,      \* useState(false)
  showManageModal,   \* useState(false)
  selectedBoxId,     \* useState<number | null>(null)
  newBoxDescription, \* useState("")
  editDescription,   \* useState("")
  chatMessages,      \* useState<ChatMessage[]>([greeting]): sequence of [role, content]
  chatInput,         \* useState("")
  isLoading,         \* useState(false)
  \* the chat route
  posts,             \* POST /api/chat exchanges under way
  directPosts        \* number of POSTs made by other callers than the page

view == <<dataRows, loadingData, predict, loadingPredict, errorMsg>>
net == <<pendingData, pendingPredict, dataCalls, predictCalls>>
hist == <<cur, lastFail, lastEvent, atTeardown, lastOk>>
ui == <<showBoxDropdown, shown>>
page == <<phase, interval, clock, view, net, ticks, hist, ui>>
dash == <<boxes, showAddModal, showManageModal, selectedBoxId, newBoxDescription, editDescription>>
chat == <<chatMessages, chatInput, isLoading, posts, directPosts>>
vars == <<page, dash, chat>>

\* `data?.data ?? []`
RowsOf(body) == IF "data" \in DOMAIN body THEN body.data ELSE <<>>

RemoveAt(s, i) == [j \in 1..(Len(s) - 1) |-> IF j < i THEN s[j] ELSE s[j + 1]]

Aged(s) == [j \in 1..Len(s) |-> [s[j] EXCEPT !.age = @ + StepMs]]

NewCycle(t) ==
  [tick |-> t, preRows |-> dataRows, prePredict |-> predict,
   data |-> "pending", predict |-> "pending", first |-> "none",
   dataRowsGot |-> <<>>, predictGot |-> NullPredict]

Settled(src, t, outcome) ==
  IF t # cur.tick THEN cur
  ELSE [cur EXCEPT ![src] = outcome,
                   !.first = IF @ = "none" THEN src ELSE @]

\* ------------------------------------------------------- derived helpers
\* JavaScript values of mixed kind: null / undefined, a number, a thrown
\* TypeError
Null == [null |-> TRUE]
Num(v) == [num |-> v]
Thrown == [throw |-> "TypeError"]
NoBody == [none |-> TRUE]

\* the placeholder and waiting texts of the cards
Dash == [text |-> "--"]
Dots == [text |-> "..."]
Calculating == [text |-> "Calculating..."]
WaitingPrediction == [text |-> "Waiting prediction..."]

\* `predict?.prediction`
predictionOf(p) ==
  IF p = NullPredict \/ "prediction" \notin DOMAIN p THEN Null ELSE p.prediction

\* variant of latest that takes the row at the other end
latest_LastRow(rows) == IF Len(rows) > 0 THEN rows[Len(rows)] ELSE Null

\* `dataRows[0] || null`
latest(rows) == IF Len(rows) > 0 THEN rows[1] ELSE Null

\* `predict?.prediction?.classification ?? '—'`
classification(p) ==
  IF predictionOf(p) # Null /\ "classification" \in DOMAIN predictionOf(p)
    THEN predictionOf(p).classification ELSE "--"

\* the fractions of four decimals, held in 1/10000, whose product with 100
\* in binary floating point falls just below the half it equals in exact
\* arithmetic (0.285 * 100 is 28.499999999999996)
BelowHalfProducts == {1450, 2850, 5650, 5750}

\* variant of RoundPct that drops the fraction instead of rounding
RoundPct_Truncates(x) == x \div 100

\* Math.round(x * 100) of a fraction held in 1/10000: the nearest whole
\* number of the floating-point product, a half going up
RoundPct(x) == IF x \in BelowHalfProducts THEN x \div 100 ELSE (x + 50) \div 100

\* `predict ? Math.round((predict.prediction.probability || 0) * 100) : null`
\* reading .probability of an absent prediction object throws
probabilityPct(p) ==
  IF p = NullPredict THEN Null
  ELSE IF "prediction" \notin DOMAIN p THEN Thrown
  ELSE IF "probability" \in DOMAIN p.prediction
    THEN Num(RoundPct(p.prediction.probability))
    ELSE Num(RoundPct(0))

\* `predict?.prediction?.confidence ?? null`
confidencePct(p) ==
  IF predictionOf(p) # Null /\ "confidence" \in DOMAIN predictionOf(p)
    THEN Num(predictionOf(p).confidence) ELSE Null

\* variant of rslHours whose fallback is 0 instead of null
rslHours_DefaultsToZero(p) ==
  IF /\ predictionOf(p) # Null
     /\ "raw_prediction" \in DOMAIN predictionOf(p)
     /\ "rsl_hours" \in DOMAIN predictionOf(p).raw_prediction
    THEN Num(predictionOf(p).raw_prediction.rsl_hours) ELSE Num(0)

\* `predict?.prediction?.raw_prediction?.rsl_hours ?? null`, in tenths
rslHours(p) ==
  IF /\ predictionOf(p) # Null
     /\ "raw_prediction" \in DOMAIN predictionOf(p)
     /\ "rsl_hours" \in DOMAIN predictionOf(p).raw_prediction
    THEN Num(predictionOf(p).raw_prediction.rsl_hours) ELSE Null

\* `rslHours != null ? Math.floor(rslHours / 24) : null`
rslDays(p) ==
  IF rslHours(p) # Null THEN Num(rslHours(p).num \div 240) ELSE Null

\* variant of rslRemHours with Math.floor in place of Math.round
rslRemHours_Floors(p) ==
  IF rslHours(p) # Null THEN Num((rslHours(p).num % 240) \div 10) ELSE Null

\* `rslHours != null ? Math.round(rslHours % 24) : null`
rslRemHours(p) ==
  IF rslHours(p) # Null THEN Num(((rslHours(p).num % 240) + 5) \div 10) ELSE Null

\* `rslHours != null ? new Date(Date.now() + rslHours * 3600 * 1000) : null`,
\* as milliseconds from now
spoilDate(p) ==
  IF rslHours(p) # Null THEN Num(rslHours(p).num * 360000) ELSE Null

\* variant of rowsAsc that leaves the newest row out
rowsAsc_DropsNewest(rows) == [j \in 1..(Len(rows) - 1) |-> rows[Len(rows) + 1 - j]]

\* variant of rowsAsc that copies without reversing
rowsAsc_NotReversed(rows) == [j \in 1..Len(rows) |-> rows[j]]

\* `[...dataRows].reverse()`
rowsAsc(rows) == [j \in 1..Len(rows) |-> rows[Len(rows) + 1 - j]]

\* `new Date(r.timestamp).toLocaleTimeString()`: the time of day of a
\* timestamp held in seconds
TimeLabel(ts) == ts % 86400

\* `rowsAsc.map((r) => ({ x: ..., value: r.ppm_co2 }))` and the two others
co2Series(asc) == [j \in 1..Len(asc) |-> [x |-> TimeLabel(asc[j].timestamp), value |-> asc[j].ppm_co2]]
nh3Series(asc) == [j \in 1..Len(asc) |-> [x |-> TimeLabel(asc[j].timestamp), value |-> asc[j].ppm_nh3]]
ethanolSeries(asc) == [j \in 1..Len(asc) |-> [x |-> TimeLabel(asc[j].timestamp), value |-> asc[j].ppm_c2h5oh]]

\* Status card, second line
StatusLine(lp, p) ==
  IF lp THEN Calculating
  ELSE IF probabilityPct(p) # Null /\ confidencePct(p) # Null
    THEN [prob |-> probabilityPct(p).num, confidence |-> confidencePct(p).num]
    ELSE Dash

\* Shelf Life card, first line
ShelfLifeText(lp, p) ==
  IF lp THEN Dots
  ELSE IF rslHours(p) # Null
    THEN [days |-> rslDays(p).num, hours |-> rslRemHours(p).num]
    ELSE Dash

\* Shelf Life card, second line
SpoilText(p) ==
  IF spoilDate(p) # Null THEN [spoiledOn |-> spoilDate(p).num] ELSE WaitingPrediction

\* Status card, first line
ClassificationText(lp, p) == IF lp THEN Dots ELSE [text |-> classification(p)]

\* Number.prototype.toFixed(1) of a whole number of degrees: its tenths
ToFixed1(v) == 10 * v

\* Temperature card
TemperatureText(ld, rows) ==
  IF ld THEN Dots
  ELSE IF latest(rows) # Null THEN [celsiusTenths |-> ToFixed1(latest(rows).temperatureC)]
  ELSE Dash

\* Humidity card
HumidityText(ld, rows) ==
  IF ld THEN Dots
  ELSE IF latest(rows) # Null THEN [percent |-> latest(rows).humidity]
  ELSE Dash

\* the three gas cards
Co2Text(ld, rows) ==
  IF ld THEN Dots
  ELSE IF latest(rows) # Null THEN [ppm |-> latest(rows).ppm_co2]
  ELSE Dash

Nh3Text(ld, rows) ==
  IF ld THEN Dots
  ELSE IF latest(rows) # Null THEN [ppm |-> latest(rows).ppm_nh3]
  ELSE Dash

EthanolText(ld, rows) ==
  IF ld THEN Dots
  ELSE IF latest(rows) # Null THEN [ppm |-> latest(rows).ppm_c2h5oh]
  ELSE Dash

\* one evaluation of the component function on the given state
Render(rows, ld, p, lp) ==
  IF probabilityPct(p) = Thrown THEN [threw |-> TRUE]
  ELSE [threw |-> FALSE,
        latest |-> latest(rows),
        classification |-> classification(p),
        probabilityPct |-> probabilityPct(p),
        confidencePct |-> confidencePct(p),
        rslHours |-> rslHours(p),
        rslDays |-> rslDays(p),
        rslRemHours |-> rslRemHours(p),
        spoilDate |-> spoilDate(p),
        rowsAsc |-> rowsAsc(rows),
        co2Series |-> co2Series(rowsAsc(rows)),
        nh3Series |-> nh3Series(rowsAsc(rows)),
        ethanolSeries |-> ethanolSeries(rowsAsc(rows)),
        classificationText |-> ClassificationText(lp, p),
        temperatureText |-> TemperatureText(ld, rows),
        humidityText |-> HumidityText(ld, rows),
        co2Text |-> Co2Text(ld, rows),
        nh3Text |-> Nh3Text(ld, rows),
        ethanolText |-> EthanolText(ld, rows),
        statusLine |-> StatusLine(lp, p),
        shelfLife |-> ShelfLifeText(lp, p),
        spoilText |-> SpoilText(p)]

\* the re-render that follows the state updates of a step
Rerender == shown' = Render(dataRows', loadingData', predict', loadingPredict')

\* --------------------------------------------------- the Dashboard page
\* a text is a sequence of tokens; "" is the empty sequence and a token " "
\* is white space
Blank(text) == \A j \in 1..Len(text) : text[j] = " "

\* the `4` of handleAddBox and of the Add Box button
boxLimit == 4

\* `null` of selectedBoxId; the ids assigned start at 1
NoBoxId == 0

\* what a user types into a description field
DescriptionInputs == {<<>>, <<" ">>, <<"a">>, <<"b">>}

\* the first message of the chat panel (its first word)
Greeting == <<"Hello!">>

DashInit ==
  /\ boxes = <<>>
  /\ showAddModal = FALSE
  /\ showManageModal = FALSE
  /\ selectedBoxId = NoBoxId
  /\ newBoxDescription = <<>>
  /\ editDescription = <<>>

ChatInit ==
  /\ chatMessages = <<[role |-> "assistant", content |-> Greeting]>>
  /\ chatInput = <<>>
  /\ isLoading = FALSE
  /\ posts = <<>>
  /\ directPosts = 0

Init ==
  /\ DashInit
  /\ ChatInit
  /\ phase = "rendered"
  /\ interval = FALSE
  /\ clock = 0
  /\ dataRows = <<>>
  /\ loadingData = TRUE
  /\ predict = NullPredict
  /\ loadingPredict = TRUE
  /\ errorMsg = NullMsg
  /\ pendingData = <<>>
  /\ pendingPredict = <<>>
  /\ dataCalls = 0
  /\ predictCalls = 0
  /\ ticks = 0
  /\ cur = [tick |-> 0, preRows |-> <<>>, prePredict |-> NullPredict,
            data |-> "none", predict |-> "none", first |-> "none",
            dataRowsGot |-> <<>>, predictGot |-> NullPredict]
  /\ lastFail = [src |-> "none", msg |-> NullMsg, prev |-> NullMsg]
  /\ lastEvent = [op |-> "init", src |-> "none", ok |-> FALSE]
  /\ atTeardown = <<>>
  /\ lastOk = [data |-> NoBody, predict |-> NoBody]
  /\ showBoxDropdown = TRUE
  /\ shown = Render(<<>>, TRUE, NullPredict, TRUE)

\* variant of StartFetchDataRows without setLoadingData(true)
StartFetchDataRows_NoLoadingFlag(t) ==
  /\ loadingData' = loadingData
  /\ pendingData' = Append(pendingData, [age |-> 0, tick |-> t])
  /\ dataCalls' = dataCalls + 1

\* fetchDataRows up to its await: setLoadingData(true); api.get('/data')
StartFetchDataRows(t) ==
  /\ loadingData' = TRUE
  /\ pendingData' = Append(pendingData, [age |-> 0, tick |-> t])
  /\ dataCalls' = dataCalls + 1

\* fetchPredict up to its await: setLoadingPredict(true); api.get('/predict')
StartFetchPredict(t) ==
  /\ loadingPredict' = TRUE
  /\ pendingPredict' = Append(pendingPredict, [age |-> 0, tick |-> t])
  /\ predictCalls' = predictCalls + 1

\* the effect body: fetchDataRows(); fetchPredict(); setInterval(..., 30_000)
Mount ==
  /\ phase = "rendered"
  /\ phase' = "mounted"
  /\ StartFetchDataRows(1)
  /\ StartFetchPredict(1)
  /\ interval' = TRUE
  /\ clock' = 0
  /\ ticks' = 1
  /\ cur' = NewCycle(1)
  /\ lastEvent' = [op |-> "mount", src |-> "none", ok |-> FALSE]
  /\ UNCHANGED <<dataRows, predict, errorMsg, lastFail, atTeardown>>
  /\ UNCHANGED lastOk
  /\ UNCHANGED showBoxDropdown
  /\ Rerender
  /\ UNCHANGED <<dash, chat>>

\* the interval callback: fetchDataRows(); fetchPredict()
Tick ==
  /\ interval
  /\ clock >= intervalMs
  /\ ticks < MaxTicks
  /\ StartFetchDataRows(ticks + 1)
  /\ StartFetchPredict(ticks + 1)
  /\ clock' = 0
  /\ ticks' = ticks + 1
  /\ cur' = NewCycle(ticks + 1)
  /\ lastEvent' = [op |-> "tick", src |-> "none", ok |-> FALSE]
  /\ UNCHANGED <<phase, interval, dataRows, predict, errorMsg, lastFail, atTeardown>>
  /\ UNCHANGED lastOk
  /\ UNCHANGED showBoxDropdown
  /\ Rerender
  /\ UNCHANGED <<dash, chat>>

\* variant of Unmount whose cleanup does not clear the timer
Unmount_KeepsTimer ==
  /\ phase = "mounted"
  /\ phase' = "unmounted"
  /\ interval' = interval
  /\ atTeardown' = view
  /\ lastEvent' = [op |-> "unmount", src |-> "none", ok |-> FALSE]
  /\ UNCHANGED <<clock, view, net, ticks, cur, lastFail>>
  /\ UNCHANGED <<lastOk, showBoxDropdown, shown>>
  /\ UNCHANGED <<dash, chat>>

\* the effect cleanup: clearInterval(interval)
Unmount ==
  /\ phase = "mounted"
  /\ phase' = "unmounted"
  /\ interval' = FALSE
  /\ atTeardown' = view
  /\ lastEvent' = [op |-> "unmount", src |-> "none", ok |-> FALSE]
  /\ UNCHANGED <<clock, view, net, ticks, cur, lastFail>>
  /\ UNCHANGED <<lastOk, showBoxDropdown, shown>>
  /\ UNCHANGED <<dash, chat>>

\* variant of Elapse without the axios timeout: a request stays in flight
\* for as long as no answer comes
Elapse_NoTimeout ==
  /\ phase # "rendered"
  /\ clock < intervalMs \/ (~interval /\ (pendingData # <<>> \/ pendingPredict # <<>>))
  /\ clock' = IF clock < intervalMs THEN clock + StepMs ELSE clock
  /\ pendingData' = Aged(pendingData)
  /\ pendingPredict' = Aged(pendingPredict)
  /\ lastEvent' = [op |-> "elapse", src |-> "none", ok |-> FALSE]
  /\ UNCHANGED <<phase, interval, view, dataCalls, predictCalls, ticks, cur, lastFail, atTeardown>>
  /\ UNCHANGED <<lastOk, showBoxDropdown, shown>>
  /\ UNCHANGED <<dash, chat>>

\* StepMs milliseconds pass: an armed timer that is due fires first, and a
\* request that has reached the axios timeout is rejected first.  The clock
\* is read up to the instant the next firing is (or would have been) due.
Elapse ==
  /\ phase # "rendered"
  /\ clock < intervalMs \/ (~interval /\ (pendingData # <<>> \/ pendingPredict # <<>>))
  /\ \A j \in 1..Len(pendingData) : pendingData[j].age < timeoutMs
  /\ \A j \in 1..Len(pendingPredict) : pendingPredict[j].age < timeoutMs
  /\ clock' = IF clock < intervalMs THEN clock + StepMs ELSE clock
  /\ pendingData' = Aged(pendingData)
  /\ pendingPredict' = Aged(pendingPredict)
  /\ lastEvent' = [op |-> "elapse", src |-> "none", ok |-> FALSE]
  /\ UNCHANGED <<phase, interval, view, dataCalls, predictCalls, ticks, cur, lastFail, atTeardown>>
  /\ UNCHANGED <<lastOk, showBoxDropdown, shown>>
  /\ UNCHANGED <<dash, chat>>

\* variant of DataSuccess that puts the new rows in front of the old ones
DataSuccess_KeepsOldRows(i, body) ==
  /\ i \in 1..Len(pendingData)
  /\ pendingData[i].age < timeoutMs
  /\ dataRows' = RowsOf(body) \o dataRows
  /\ loadingData' = FALSE
  /\ pendingData' = RemoveAt(pendingData, i)
  /\ cur' = [Settled("data", pendingData[i].tick, "ok") EXCEPT
               !.dataRowsGot = IF pendingData[i].tick = cur.tick THEN RowsOf(body) ELSE @]
  /\ lastEvent' = [op |-> "settle", src |-> "data", ok |-> TRUE]
  /\ UNCHANGED <<phase, interval, clock, predict, loadingPredict, errorMsg,
                 pendingPredict, dataCalls, predictCalls, ticks, lastFail, atTeardown>>
  /\ lastOk' = [lastOk EXCEPT !.data = body]
  /\ UNCHANGED showBoxDropdown
  /\ Rerender
  /\ UNCHANGED <<dash, chat>>

\* fetchDataRows after the await resolved: setDataRows(data?.data ?? []);
\* finally setLoadingData(false)
DataSuccess(i, body) ==
  /\ i \in 1..Len(pendingData)
  /\ pendingData[i].age < timeoutMs
  /\ dataRows' = RowsOf(body)
  /\ loadingData' = FALSE
  /\ pendingData' = RemoveAt(pendingData, i)
  /\ cur' = [Settled("data", pendingData[i].tick, "ok") EXCEPT
               !.dataRowsGot = IF pendingData[i].tick = cur.tick THEN RowsOf(body) ELSE @]
  /\ lastEvent' = [op |-> "settle", src |-> "data", ok |-> TRUE]
  /\ UNCHANGED <<phase, interval, clock, predict, loadingPredict, errorMsg,
                 pendingPredict, dataCalls, predictCalls, ticks, lastFail, atTeardown>>
  /\ lastOk' = [lastOk EXCEPT !.data = body]
  /\ UNCHANGED showBoxDropdown
  /\ Rerender
  /\ UNCHANGED <<dash, chat>>

\* the message axios rejects a request of this age with
FailureMsgs(req) == IF req.age >= timeoutMs THEN {TimeoutMsg} ELSE TransportMsgs

\* variant of DataFailure whose catch also empties the rows
DataFailure_ClearsRows(i, msg) ==
  /\ i \in 1..Len(pendingData)
  /\ msg \in FailureMsgs(pendingData[i])
  /\ errorMsg' = msg
  /\ dataRows' = <<>>
  /\ loadingData' = FALSE
  /\ pendingData' = RemoveAt(pendingData, i)
  /\ cur' = Settled("data", pendingData[i].tick, "fail")
  /\ lastFail' = [src |-> "data", msg |-> msg, prev |-> errorMsg]
  /\ lastEvent' = [op |-> "settle", src |-> "data", ok |-> FALSE]
  /\ UNCHANGED <<phase, interval, clock, predict, loadingPredict,
                 pendingPredict, dataCalls, predictCalls, ticks, atTeardown>>
  /\ UNCHANGED lastOk
  /\ UNCHANGED showBoxDropdown
  /\ Rerender
  /\ UNCHANGED <<dash, chat>>

\* variant of DataFailure whose catch calls fetchDataRows again
DataFailure_Retries(i, msg) ==
  /\ i \in 1..Len(pendingData)
  /\ msg \in FailureMsgs(pendingData[i])
  /\ errorMsg' = msg
  /\ loadingData' = TRUE
  /\ pendingData' = Append(RemoveAt(pendingData, i), [age |-> 0, tick |-> pendingData[i].tick])
  /\ dataCalls' = dataCalls + 1
  /\ cur' = Settled("data", pendingData[i].tick, "fail")
  /\ lastFail' = [src |-> "data", msg |-> msg, prev |-> errorMsg]
  /\ lastEvent' = [op |-> "settle", src |-> "data", ok |-> FALSE]
  /\ UNCHANGED <<phase, interval, clock, dataRows, predict, loadingPredict,
                 pendingPredict, predictCalls, ticks, atTeardown>>
  /\ UNCHANGED lastOk
  /\ UNCHANGED showBoxDropdown
  /\ Rerender
  /\ UNCHANGED <<dash, chat>>

\* fetchDataRows after the await rejected: catch setErrorMsg(e.message);
\* finally setLoadingData(false)
DataFailure(i, msg) ==
  /\ i \in 1..Len(pendingData)
  /\ msg \in FailureMsgs(pendingData[i])
  /\ errorMsg' = msg
  /\ loadingData' = FALSE
  /\ pendingData' = RemoveAt(pendingData, i)
  /\ cur' = Settled("data", pendingData[i].tick, "fail")
  /\ lastFail' = [src |-> "data", msg |-> msg, prev |-> errorMsg]
  /\ lastEvent' = [op |-> "settle", src |-> "data", ok |-> FALSE]
  /\ UNCHANGED <<phase, interval, clock, dataRows, predict, loadingPredict,
                 pendingPredict, dataCalls, predictCalls, ticks, atTeardown>>
  /\ UNCHANGED lastOk
  /\ UNCHANGED showBoxDropdown
  /\ Rerender
  /\ UNCHANGED <<dash, chat>>

\* variant of PredictSuccess whose finally lowers the other source's flag
PredictSuccess_LowersLoadingData(i, body) ==
  /\ i \in 1..Len(pendingPredict)
  /\ pendingPredict[i].age < timeoutMs
  /\ predict' = body
  /\ loadingPredict' = FALSE
  /\ loadingData' = FALSE
  /\ pendingPredict' = RemoveAt(pendingPredict, i)
  /\ cur' = [Settled("predict", pendingPredict[i].tick, "ok") EXCEPT
               !.predictGot = IF pendingPredict[i].tick = cur.tick THEN body ELSE @]
  /\ lastEvent' = [op |-> "settle", src |-> "predict", ok |-> TRUE]
  /\ UNCHANGED <<phase, interval, clock, dataRows, errorMsg,
                 pendingData, dataCalls, predictCalls, ticks, lastFail, atTeardown>>
  /\ lastOk' = [lastOk EXCEPT !.predict = body]
  /\ UNCHANGED showBoxDropdown
  /\ Rerender
  /\ UNCHANGED <<dash, chat>>

\* variant of PredictSuccess that holds its response back while the /data
\* request is in flight (a join of the two requests)
PredictSuccess_WaitsForData(i, body) ==
  /\ i \in 1..Len(pendingPredict)
  /\ pendingPredict[i].age < timeoutMs
  /\ predict' = IF pendingData = <<>> THEN body ELSE predict
  /\ loadingPredict' = FALSE
  /\ pendingPredict' = RemoveAt(pendingPredict, i)
  /\ cur' = [Settled("predict", pendingPredict[i].tick, "ok") EXCEPT
               !.predictGot = IF pendingPredict[i].tick = cur.tick THEN body ELSE @]
  /\ lastEvent' = [op |-> "settle", src |-> "predict", ok |-> TRUE]
  /\ UNCHANGED <<phase, interval, clock, dataRows, loadingData, errorMsg,
                 pendingData, dataCalls, predictCalls, ticks, lastFail, atTeardown>>
  /\ lastOk' = [lastOk EXCEPT !.predict = body]
  /\ UNCHANGED showBoxDropdown
  /\ Rerender
  /\ UNCHANGED <<dash, chat>>

\* fetchPredict after the await resolved: setPredict(data);
\* finally setLoadingPredict(false)
PredictSuccess(i, body) ==
  /\ i \in 1..Len(pendingPredict)
  /\ pendingPredict[i].age < timeoutMs
  /\ predict' = body
  /\ loadingPredict' = FALSE
  /\ pendingPredict' = RemoveAt(pendingPredict, i)
  /\ cur' = [Settled("predict", pendingPredict[i].tick, "ok") EXCEPT
               !.predictGot = IF pendingPredict[i].tick = cur.tick THEN body ELSE @]
  /\ lastEvent' = [op |-> "settle", src |-> "predict", ok |-> TRUE]
  /\ UNCHANGED <<phase, interval, clock, dataRows, loadingData, errorMsg,
                 pendingData, dataCalls, predictCalls, ticks, lastFail, atTeardown>>
  /\ lastOk' = [lastOk EXCEPT !.predict = body]
  /\ UNCHANGED showBoxDropdown
  /\ Rerender
  /\ UNCHANGED <<dash, chat>>

\* variant of PredictFailure that keeps an error message already shown
PredictFailure_KeepsFirstError(i, msg) ==
  /\ i \in 1..Len(pendingPredict)
  /\ msg \in FailureMsgs(pendingPredict[i])
  /\ errorMsg' = IF errorMsg = NullMsg THEN msg ELSE errorMsg
  /\ loadingPredict' = FALSE
  /\ pendingPredict' = RemoveAt(pendingPredict, i)
  /\ cur' = Settled("predict", pendingPredict[i].tick, "fail")
  /\ lastFail' = [src |-> "predict", msg |-> msg, prev |-> errorMsg]
  /\ lastEvent' = [op |-> "settle", src |-> "predict", ok |-> FALSE]
  /\ UNCHANGED <<phase, interval, clock, dataRows, loadingData, predict,
                 pendingData, dataCalls, predictCalls, ticks, atTeardown>>
  /\ UNCHANGED lastOk
  /\ UNCHANGED showBoxDropdown
  /\ Rerender
  /\ UNCHANGED <<dash, chat>>

\* variant of PredictFailure whose catch clears the poll timer
PredictFailure_StopsPolling(i, msg) ==
  /\ i \in 1..Len(pendingPredict)
  /\ msg \in FailureMsgs(pendingPredict[i])
  /\ errorMsg' = msg
  /\ loadingPredict' = FALSE
  /\ interval' = FALSE
  /\ pendingPredict' = RemoveAt(pendingPredict, i)
  /\ cur' = Settled("predict", pendingPredict[i].tick, "fail")
  /\ lastFail' = [src |-> "predict", msg |-> msg, prev |-> errorMsg]
  /\ lastEvent' = [op |-> "settle", src |-> "predict", ok |-> FALSE]
  /\ UNCHANGED <<phase, clock, dataRows, loadingData, predict,
                 pendingData, dataCalls, predictCalls, ticks, atTeardown>>
  /\ UNCHANGED lastOk
  /\ UNCHANGED showBoxDropdown
  /\ Rerender
  /\ UNCHANGED <<dash, chat>>

\* fetchPredict after the await rejected: catch setErrorMsg(e.message);
\* finally setLoadingPredict(false)
PredictFailure(i, msg) ==
  /\ i \in 1..Len(pendingPredict)
  /\ msg \in FailureMsgs(pendingPredict[i])
  /\ errorMsg' = msg
  /\ loadingPredict' = FALSE
  /\ pendingPredict' = RemoveAt(pendingPredict, i)
  /\ cur' = Settled("predict", pendingPredict[i].tick, "fail")
  /\ lastFail' = [src |-> "predict", msg |-> msg, prev |-> errorMsg]
  /\ lastEvent' = [op |-> "settle", src |-> "predict", ok |-> FALSE]
  /\ UNCHANGED <<phase, interval, clock, dataRows, loadingData, predict,
                 pendingData, dataCalls, predictCalls, ticks, atTeardown>>
  /\ UNCHANGED lastOk
  /\ UNCHANGED showBoxDropdown
  /\ Rerender
  /\ UNCHANGED <<dash, chat>>

AllMsgs == TransportMsgs \cup {TimeoutMsg}

DataSettle ==
  \E i \in 1..Len(pendingData) :
    \/ \E body \in DataBodies : DataSuccess(i, body)
    \/ \E msg \in AllMsgs : DataFailure(i, msg)

PredictSettle ==
  \E i \in 1..Len(pendingPredict) :
    \/ \E body \in PredictBodies : PredictSuccess(i, body)
    \/ \E msg \in AllMsgs : PredictFailure(i, msg)

Next ==
  \/ Mount
  \/ Tick
  \/ Unmount
  \/ Elapse
  \/ \E i \in 1..Len(pendingData), body \in DataBodies : DataSuccess(i, body)
  \/ \E i \in 1..Len(pendingData), msg \in AllMsgs : DataFailure(i, msg)
  \/ \E i \in 1..Len(pendingPredict), body \in PredictBodies : PredictSuccess(i, body)
  \/ \E i \in 1..Len(pendingPredict), msg \in AllMsgs : PredictFailure(i, msg)

Spec == Init /\ [][Next]_vars

\* ------------------------------------------- the derived helpers on their own
\* bounds of the inputs the derived helpers are evaluated on
MaxRows == 3
MaxRslTenths == 600
ProbGrid == 400

\* every row list of at most MaxRows rows, in any order, repeats included
WideRows == UNION { [1..k -> {SensorRow(i) : i \in 1..MaxRows}] : k \in 0..MaxRows }

PredictionWith(t) ==
  [status |-> "success",
   prediction |-> [classification |-> "Fresh", probability |-> 8734, confidence |-> 91,
                   raw_prediction |-> [rsl_hours |-> t]]]

\* 2xx bodies of GET /predict that lack the prediction object or one of its
\* fields
PartialPredictBodies ==
  { [status |-> "error"],
    [status |-> "success",
     prediction |-> [classification |-> "Fresh", confidence |-> 91,
                     raw_prediction |-> [rsl_hours |-> 300]]],
    [status |-> "success",
     prediction |-> [classification |-> "Fresh", probability |-> 8734,
                     raw_prediction |-> [rsl_hours |-> 300]]],
    [status |-> "success",
     prediction |-> [classification |-> "Fresh", probability |-> 8734, confidence |-> 91,
                     raw_prediction |-> [status |-> "error"]]],
    [status |-> "success",
     prediction |-> [classification |-> "Fresh", probability |-> 8734, confidence |-> 91]] }

\* a prediction whose probability is the k-th point of a grid of ProbGrid
\* steps over [0, 1], with a confidence that varies with it
PredictionAt(k) ==
  [status |-> "success",
   prediction |-> [classification |-> "Spoiled", probability |-> (10000 * k) \div ProbGrid,
                   confidence |-> k % 101,
                   raw_prediction |-> [rsl_hours |-> 300]]]

WidePredictBodies ==
  { PredictionWith(t) : t \in 0..MaxRslTenths } \cup PartialPredictBodies
    \cup { PredictionAt(k) : k \in 0..ProbGrid }

\* the view once the two requests of the mount have resolved, /data first,
\* with any row list and any prediction body
DeriveInit ==
  \E rows \in WideRows, body \in WidePredictBodies :
    /\ phase = "mounted"
    /\ interval = TRUE
    /\ clock = 0
    /\ dataRows = rows
    /\ loadingData = FALSE
    /\ predict = body
    /\ loadingPredict = FALSE
    /\ errorMsg = NullMsg
    /\ pendingData = <<>>
    /\ pendingPredict = <<>>
    /\ dataCalls = 1
    /\ predictCalls = 1
    /\ ticks = 1
    /\ cur = [tick |-> 1, preRows |-> <<>>, prePredict |-> NullPredict,
              data |-> "ok", predict |-> "ok", first |-> "data",
              dataRowsGot |-> rows, predictGot |-> body]
    /\ lastFail = [src |-> "none", msg |-> NullMsg, prev |-> NullMsg]
    /\ lastEvent = [op |-> "settle", src |-> "predict", ok |-> TRUE]
    /\ atTeardown = <<>>
    /\ lastOk = [data |-> [count |-> Len(rows), data |-> rows], predict |-> body]
    /\ showBoxDropdown = TRUE
    /\ shown = Render(rows, FALSE, body, FALSE)
    /\ DashInit
    /\ ChatInit

\* variant of ToggleBoxDropdown whose render reverses dataRows in place
\* (dataRows.reverse() without the copy)
ToggleBoxDropdown_ReversesInPlace ==
  /\ phase = "mounted"
  /\ showBoxDropdown' = ~showBoxDropdown
  /\ lastEvent' = [op |-> "toggle", src |-> "none", ok |-> FALSE]
  /\ dataRows' = rowsAsc(dataRows)
  /\ shown' = Render(dataRows, loadingData, predict, loadingPredict)
  /\ UNCHANGED <<phase, interval, clock, loadingData, predict, loadingPredict, errorMsg,
                 net, ticks, cur, lastFail, atTeardown, lastOk>>
  /\ UNCHANGED <<dash, chat>>

\* onClick of the Boxes entry: setShowBoxDropdown(!showBoxDropdown); the
\* component function runs again on the same polled state
ToggleBoxDropdown ==
  /\ phase = "mounted"
  /\ showBoxDropdown' = ~showBoxDropdown
  /\ lastEvent' = [op |-> "toggle", src |-> "none", ok |-> FALSE]
  /\ shown' = Render(dataRows, loadingData, predict, loadingPredict)
  /\ UNCHANGED <<phase, interval, clock, view, net, ticks, cur, lastFail, atTeardown, lastOk>>
  /\ UNCHANGED <<dash, chat>>

DeriveNext == ToggleBoxDropdown

\* the page with its polling and the renders that a click on the Boxes
\* entry causes in between
ViewNext == Next \/ ToggleBoxDropdown

ViewSpec == Init /\ [][ViewNext]_vars

DeriveSpec == DeriveInit /\ [][DeriveNext]_vars

\* ------------------------------------------------ Dashboard: the boxes
\* handleAddBox, reached from the Add Box button (disabled at boxLimit)
handleAddBox ==
  /\ Len(boxes) < boxLimit
  /\ showAddModal' = (IF Len(boxes) < boxLimit THEN TRUE ELSE showAddModal)
  /\ UNCHANGED <<boxes, showManageModal, selectedBoxId, newBoxDescription, editDescription>>
  /\ UNCHANGED <<page, chat>>

\* onChange of the description field of the add modal
TypeNewDescription(d) ==
  /\ showAddModal
  /\ newBoxDescription' = d
  /\ UNCHANGED <<boxes, showAddModal, showManageModal, selectedBoxId, editDescription>>
  /\ UNCHANGED <<page, chat>>

\* Cancel and the backdrop of the add modal
CancelAddBox ==
  /\ showAddModal
  /\ showAddModal' = FALSE
  /\ newBoxDescription' = <<>>
  /\ UNCHANGED <<boxes, showManageModal, selectedBoxId, editDescription>>
  /\ UNCHANGED <<page, chat>>

\* variant of handleSaveBox that leaves the add modal open
handleSaveBox_KeepsModalOpen ==
  /\ showAddModal
  /\ ~Blank(newBoxDescription)
  /\ boxes' = Append(boxes, [id |-> Len(boxes) + 1, description |-> newBoxDescription])
  /\ newBoxDescription' = <<>>
  /\ UNCHANGED <<showAddModal, showManageModal, selectedBoxId, editDescription>>
  /\ UNCHANGED <<page, chat>>

\* handleSaveBox, reached from the Save button of the add modal (disabled
\* on a blank description).  The sensor fields of the new box are random
\* numbers that no handler reads; they are left out.
handleSaveBox ==
  /\ showAddModal
  /\ ~Blank(newBoxDescription)
  /\ boxes' = Append(boxes, [id |-> Len(boxes) + 1, description |-> newBoxDescription])
  /\ newBoxDescription' = <<>>
  /\ showAddModal' = FALSE
  /\ UNCHANGED <<showManageModal, selectedBoxId, editDescription>>
  /\ UNCHANGED <<page, chat>>

handleManageBox ==
  /\ showManageModal' = TRUE
  /\ selectedBoxId' = NoBoxId
  /\ editDescription' = <<>>
  /\ UNCHANGED <<boxes, showAddModal, newBoxDescription>>
  /\ UNCHANGED <<page, chat>>

\* onChange of the select of the manage modal: one option per box, and the
\* empty option
SelectBox(id) ==
  /\ showManageModal
  /\ id = NoBoxId \/ \E j \in 1..Len(boxes) : boxes[j].id = id
  /\ selectedBoxId' = id
  /\ editDescription' = <<>>
  /\ UNCHANGED <<boxes, showAddModal, showManageModal, newBoxDescription>>
  /\ UNCHANGED <<page, chat>>

\* boxes.find(box => box.id === id): the first match
FindBox(id) == boxes[CHOOSE j \in 1..Len(boxes) :
                       boxes[j].id = id /\ \A k \in 1..(j - 1) : boxes[k].id # id]

\* handleEditBox, reached from Edit Box (shown while editDescription is '',
\* disabled without a selection)
handleEditBox ==
  /\ showManageModal
  /\ editDescription = <<>>
  /\ selectedBoxId # NoBoxId
  /\ editDescription' = (IF \E j \in 1..Len(boxes) : boxes[j].id = selectedBoxId
                           THEN FindBox(selectedBoxId).description ELSE editDescription)
  /\ UNCHANGED <<boxes, showAddModal, showManageModal, selectedBoxId, newBoxDescription>>
  /\ UNCHANGED <<page, chat>>

\* onChange of the edit field, shown while editDescription is not ''
TypeEditDescription(d) ==
  /\ showManageModal
  /\ editDescription # <<>>
  /\ editDescription' = d
  /\ UNCHANGED <<boxes, showAddModal, showManageModal, selectedBoxId, newBoxDescription>>
  /\ UNCHANGED <<page, chat>>

\* handleSaveEdit, reached from Save Changes
handleSaveEdit ==
  /\ showManageModal
  /\ editDescription # <<>>
  /\ IF selectedBoxId = NoBoxId
       THEN UNCHANGED dash
       ELSE /\ boxes' = [j \in 1..Len(boxes) |->
                          IF boxes[j].id = selectedBoxId
                            THEN [boxes[j] EXCEPT !.description = editDescription]
                            ELSE boxes[j]]
            /\ editDescription' = <<>>
            /\ selectedBoxId' = NoBoxId
            /\ showManageModal' = FALSE
            /\ UNCHANGED <<showAddModal, newBoxDescription>>
  /\ UNCHANGED <<page, chat>>

\* Cancel of the edit form
CancelEdit ==
  /\ showManageModal
  /\ editDescription # <<>>
  /\ editDescription' = <<>>
  /\ selectedBoxId' = NoBoxId
  /\ UNCHANGED <<boxes, showAddModal, showManageModal, newBoxDescription>>
  /\ UNCHANGED <<page, chat>>

\* boxes.filter(box => box.id !== id)
WithoutId(bs, id) == SelectSeq(bs, LAMBDA b : b.id # id)

\* handleDeleteBox, reached from Delete Box (shown while editDescription is
\* '', disabled without a selection); confirmed is the answer to
\* window.confirm
handleDeleteBox(confirmed) ==
  /\ showManageModal
  /\ editDescription = <<>>
  /\ selectedBoxId # NoBoxId
  /\ IF confirmed
       THEN /\ boxes' = WithoutId(boxes, selectedBoxId)
            /\ selectedBoxId' = NoBoxId
            /\ showManageModal' = FALSE
            /\ UNCHANGED <<showAddModal, newBoxDescription, editDescription>>
       ELSE UNCHANGED dash
  /\ UNCHANGED <<page, chat>>

\* Close of the manage modal
CloseManage ==
  /\ showManageModal
  /\ showManageModal' = FALSE
  /\ selectedBoxId' = NoBoxId
  /\ editDescription' = <<>>
  /\ UNCHANGED <<boxes, showAddModal, newBoxDescription>>
  /\ UNCHANGED <<page, chat>>

\* the backdrop and the X of the manage modal
DismissManage ==
  /\ showManageModal
  /\ showManageModal' = FALSE
  /\ UNCHANGED <<boxes, showAddModal, selectedBoxId, newBoxDescription, editDescription>>
  /\ UNCHANGED <<page, chat>>

BoxNext ==
  \/ handleAddBox
  \/ \E d \in DescriptionInputs : TypeNewDescription(d)
  \/ CancelAddBox
  \/ handleSaveBox
  \/ handleManageBox
  \/ \E id \in 0..boxLimit : SelectBox(id)
  \/ handleEditBox
  \/ \E d \in DescriptionInputs : TypeEditDescription(d)
  \/ handleSaveEdit
  \/ CancelEdit
  \/ \E confirmed \in BOOLEAN : handleDeleteBox(confirmed)
  \/ CloseManage
  \/ DismissManage

BoxSpec == Init /\ [][BoxNext]_vars

\* ------------------------------------------------------ the chat route
\* bounds of the chat: messages a user sends, POSTs of other callers
MaxTurns == 2
MaxDirectPosts == 1

\* a JSON string; null, a number and a missing value are Null, Num(v) and
\* the absence of the field
Str(text) == [str |-> text]
Arr(items) == [arr |-> items]

\* JavaScript truthiness of a JSON value
Truthy(v) ==
  /\ v # Null
  /\ ("str" \in DOMAIN v => v.str # <<>>)
  /\ ("num" \in DOMAIN v => v.num # 0)

\* process.env.OLLAMA_MODEL || 'falcon3:1b'
OLLAMA_MODEL == <<"falcon3:1b">>

\* the first paragraph of the prompt
SystemLine == [speaker |-> "System", text |-> <<"You are an AI assistant for Penyelamat Pangan">>]

\* the line the prompt ends with, left open for the model
AssistantOpen == [speaker |-> "Assistant", open |-> TRUE]

\* conversationHistory.forEach(...): the lines appended for the entries of
\* a history, or Thrown when an entry has no properties to read
RECURSIVE HistoryLines(_)
HistoryLines(items) ==
  IF items = <<>> THEN [lines |-> <<>>]
  ELSE LET msg == Head(items)
           rest == HistoryLines(Tail(items))
       IN IF msg = Null \/ rest = Thrown THEN Thrown
          ELSE IF msg.role = "user"
            THEN [lines |-> <<[speaker |-> "User", text |-> msg.content]>> \o rest.lines]
          ELSE IF msg.role = "assistant"
            THEN [lines |-> <<[speaker |-> "Assistant", text |-> msg.content]>> \o rest.lines]
          ELSE rest

\* the responses of the route
MessageRequired == [status |-> 400, json |-> [error |-> "Message is required"]]
FailedToGetResponse == [status |-> 500, json |-> [error |-> "Failed to get response from AI"]]
NoResponseFromModel == <<"No response from model">>

\* `catch (error) { ... status: 500 }` around the whole handler
Catch(result) == IF result = Thrown THEN FailedToGetResponse ELSE result

\* POST from its entry to the call of fetch: a response, or the prompt to
\* send.  body is the parsed request body; a body that is not JSON, or JSON
\* null, makes the destructuring of `await request.json()` throw.
TryBegin(body) ==
  IF "malformed" \in DOMAIN body \/ body = Null THEN Thrown
  ELSE IF "message" \notin DOMAIN body \/ ~Truthy(body.message) THEN MessageRequired
  ELSE LET conversationHistory ==
             IF "conversationHistory" \in DOMAIN body THEN body.conversationHistory ELSE Arr(<<>>)
       IN IF conversationHistory = Null \/ "arr" \notin DOMAIN conversationHistory THEN Thrown
          ELSE IF HistoryLines(conversationHistory.arr) = Thrown THEN Thrown
          ELSE [fullPrompt |-> <<SystemLine>> \o HistoryLines(conversationHistory.arr).lines
                                \o <<[speaker |-> "User", text |-> body.message.str], AssistantOpen>>]

PostBegin(body) == Catch(TryBegin(body))

\* how the fetch to Ollama settles: rejected, a non-2xx reply, a 2xx reply
\* whose body is not JSON, and 2xx replies with a JSON body
Reply(text) == <<text>>
OllamaOutcomes ==
  { [kind |-> "rejected"],
    [kind |-> "http", ok |-> FALSE, parse |-> "json", data |-> [error |-> Reply("model not found")]],
    [kind |-> "http", ok |-> TRUE, parse |-> "invalid"],
    [kind |-> "http", ok |-> TRUE, parse |-> "json", data |-> Null],
    [kind |-> "http", ok |-> TRUE, parse |-> "json",
     data |-> [response |-> Reply("Keep it below 4 C."), model |-> Reply("falcon3:1b-q4")]],
    [kind |-> "http", ok |-> TRUE, parse |-> "json", data |-> [response |-> Reply("All boxes are fresh.")]],
    [kind |-> "http", ok |-> TRUE, parse |-> "json", data |-> [response |-> <<>>, model |-> Reply("falcon3:1b-q4")]],
    [kind |-> "http", ok |-> TRUE, parse |-> "json", data |-> [model |-> Reply("falcon3:1b-q4")]] }

\* variant of TryFinish without the `!response.ok` check
TryFinish_NoOkCheck(o) ==
  IF o.kind = "rejected" THEN Thrown
  ELSE IF o.parse = "invalid" \/ o.data = Null THEN Thrown
  ELSE [status |-> 200,
        json |-> [response |-> IF "response" \in DOMAIN o.data /\ o.data.response # <<>>
                                 THEN o.data.response ELSE NoResponseFromModel,
                  model |-> IF "model" \in DOMAIN o.data /\ o.data.model # <<>>
                              THEN o.data.model ELSE OLLAMA_MODEL]]

\* POST from the settling of the fetch to its return
TryFinish(o) ==
  IF o.kind = "rejected" THEN Thrown
  ELSE IF ~o.ok THEN Thrown
  ELSE IF o.parse = "invalid" \/ o.data = Null THEN Thrown
  ELSE [status |-> 200,
        json |-> [response |-> IF "response" \in DOMAIN o.data /\ o.data.response # <<>>
                                 THEN o.data.response ELSE NoResponseFromModel,
                  model |-> IF "model" \in DOMAIN o.data /\ o.data.model # <<>>
                              THEN o.data.model ELSE OLLAMA_MODEL]]

PostFinish(o) == Catch(TryFinish(o))

\* --------------------------------------------------- Dashboard: the chat
\* what a user types into the chat input, and the first suggested question
ChatInputs == {<<>>, <<" ">>, <<"hi">>, <<" ", "and box 2?">>}
QuickQuestions == {<<"What is the current status of all boxes?">>}

\* the text of the catch branch of handleSendMessage
Apology == <<"Sorry, I'm having trouble connecting to the AI service. Please make sure Ollama is running in Docker.">>

UserTurns(msgs) == Len(SelectSeq(msgs, LAMBDA m : m.role = "user"))

\* chatMessages.map(msg => ({ role: msg.role, content: msg.content }))
HistoryOf(msgs) == [j \in 1..Len(msgs) |-> [role |-> msgs[j].role, content |-> msgs[j].content]]

\* an exchange as it leaves its caller
NewPost(from, body) ==
  [from |-> from, stage |-> "sent", body |-> body, fetched |-> FALSE,
   fullPrompt |-> <<>>, outcome |-> NoBody, response |-> NoBody]

ChatPosts(ps) == SelectSeq(ps, LAMBDA q : q.from = "chat")

\* onChange of the chat input, disabled while isLoading
TypeChat(text) ==
  /\ ~isLoading
  /\ chatInput' = text
  /\ UNCHANGED <<chatMessages, isLoading, posts, directPosts>>
  /\ UNCHANGED <<page, dash>>

\* handleQuickQuestion, reached from the suggestions shown at the start
handleQuickQuestion(question) ==
  /\ Len(chatMessages) = 1
  /\ chatInput' = question
  /\ UNCHANGED <<chatMessages, isLoading, posts, directPosts>>
  /\ UNCHANGED <<page, dash>>

\* variant of handleSendMessage that sends the list with the new message in
\* it as the history
handleSendMessage_SendsNewList ==
  /\ UNCHANGED <<page, dash, directPosts>>
  /\ IF Blank(chatInput) \/ isLoading
       THEN UNCHANGED <<chatMessages, chatInput, isLoading, posts>>
       ELSE /\ UserTurns(chatMessages) < MaxTurns
            /\ chatMessages' = Append(chatMessages, [role |-> "user", content |-> chatInput])
            /\ chatInput' = <<>>
            /\ isLoading' = TRUE
            /\ posts' = Append(posts,
                   NewPost("chat", [message |-> Str(chatInput),
                                    conversationHistory |-> Arr(HistoryOf(chatMessages'))]))

\* variant of handleSendMessage without the test of the input and of
\* isLoading
handleSendMessage_Unguarded ==
  /\ UNCHANGED <<page, dash, directPosts>>
  /\ UserTurns(chatMessages) < MaxTurns
  /\ chatMessages' = Append(chatMessages, [role |-> "user", content |-> chatInput])
  /\ chatInput' = <<>>
  /\ isLoading' = TRUE
  /\ posts' = Append(posts,
         NewPost("chat", [message |-> Str(chatInput),
                          conversationHistory |-> Arr(HistoryOf(chatMessages))]))

\* handleSendMessage up to the await of axios.post, reached from the Enter
\* key and the send button: the history is the chatMessages of the render
\* the handler was created in, without the new message
handleSendMessage ==
  /\ UNCHANGED <<page, dash, directPosts>>
  /\ IF Blank(chatInput) \/ isLoading
       THEN UNCHANGED <<chatMessages, chatInput, isLoading, posts>>
       ELSE /\ UserTurns(chatMessages) < MaxTurns
            /\ chatMessages' = Append(chatMessages, [role |-> "user", content |-> chatInput])
            /\ chatInput' = <<>>
            /\ isLoading' = TRUE
            /\ posts' = Append(posts,
                   NewPost("chat", [message |-> Str(chatInput),
                                    conversationHistory |-> Arr(HistoryOf(chatMessages))]))

\* request bodies of callers other than the page: not JSON, JSON null, no
\* message, an empty and a null message, a message alone, and a message with
\* a history that is null, not an array, holds a null entry, or holds entries
\* of three roles
DirectBodies ==
  { [malformed |-> TRUE],
    Null,
    [conversationHistory |-> Arr(<<>>)],
    [message |-> Str(<<>>)],
    [message |-> Null],
    [message |-> Str(<<"hi">>)],
    [message |-> Str(<<"hi">>), conversationHistory |-> Null],
    [message |-> Str(<<"hi">>), conversationHistory |-> Str(<<"none">>)],
    [message |-> Str(<<"hi">>),
     conversationHistory |-> Arr(<<[role |-> "user", content |-> <<"hi">>], Null>>)],
    [message |-> Str(<<"hi">>),
     conversationHistory |-> Arr(<<[role |-> "system", content |-> <<"be brief">>],
                                   [role |-> "user", content |-> <<"hi">>],
                                   [role |-> "tool", content |-> <<"42">>],
                                   [role |-> "assistant", content |-> <<"hello">>]>>)] }

\* a caller other than the page posts to /api/chat, one request after the
\* other
DirectPost(body) ==
  /\ directPosts < MaxDirectPosts
  /\ \A j \in 1..Len(posts) : posts[j].from # "direct"
  /\ directPosts' = directPosts + 1
  /\ posts' = Append(posts, NewPost("direct", body))
  /\ UNCHANGED <<chatMessages, chatInput, isLoading>>
  /\ UNCHANGED <<page, dash>>

\* the caller of a direct POST has its answer
DirectDone(i) ==
  /\ i \in 1..Len(posts)
  /\ posts[i].from = "direct"
  /\ posts[i].stage = "answered"
  /\ posts' = RemoveAt(posts, i)
  /\ UNCHANGED <<chatMessages, chatInput, isLoading, directPosts>>
  /\ UNCHANGED <<page, dash>>

\* POST runs up to its return or to the call of fetch
PostReceive(i) ==
  /\ i \in 1..Len(posts)
  /\ posts[i].stage = "sent"
  /\ posts' = [posts EXCEPT ![i] =
       IF "fullPrompt" \in DOMAIN PostBegin(posts[i].body)
         THEN [@ EXCEPT !.stage = "ollama", !.fetched = TRUE,
                        !.fullPrompt = PostBegin(posts[i].body).fullPrompt]
         ELSE [@ EXCEPT !.stage = "answered", !.response = PostBegin(posts[i].body)]]
  /\ UNCHANGED <<chatMessages, chatInput, isLoading, directPosts>>
  /\ UNCHANGED <<page, dash>>

\* the fetch settles and POST runs to its return
OllamaSettle(i, o) ==
  /\ i \in 1..Len(posts)
  /\ posts[i].stage = "ollama"
  /\ posts' = [posts EXCEPT ![i] =
       [@ EXCEPT !.stage = "answered", !.outcome = o, !.response = PostFinish(o)]]
  /\ UNCHANGED <<chatMessages, chatInput, isLoading, directPosts>>
  /\ UNCHANGED <<page, dash>>

\* handleSendMessage after axios.post resolved (a 2xx answer): the reply
\* is appended; finally setIsLoading(false)
ChatResolved(i) ==
  /\ i \in 1..Len(posts)
  /\ posts[i].from = "chat"
  /\ posts[i].stage = "answered"
  /\ posts[i].response.status = 200
  /\ chatMessages' = Append(chatMessages,
        [role |-> "assistant", content |-> posts[i].response.json.response])
  /\ isLoading' = FALSE
  /\ posts' = RemoveAt(posts, i)
  /\ UNCHANGED <<chatInput, directPosts>>
  /\ UNCHANGED <<page, dash>>

\* variant of ChatRejected whose catch branch appends nothing
ChatRejected_NoApology(i) ==
  /\ i \in 1..Len(posts)
  /\ posts[i].from = "chat"
  /\ posts[i].stage = "answered" => posts[i].response.status # 200
  /\ isLoading' = FALSE
  /\ posts' = RemoveAt(posts, i)
  /\ UNCHANGED <<chatMessages, chatInput, directPosts>>
  /\ UNCHANGED <<page, dash>>

\* handleSendMessage after axios.post rejected (a non-2xx answer, or the
\* exchange failed in transport before an answer arrived): the apology is
\* appended; finally setIsLoading(false)
ChatRejected(i) ==
  /\ i \in 1..Len(posts)
  /\ posts[i].from = "chat"
  /\ posts[i].stage = "answered" => posts[i].response.status # 200
  /\ chatMessages' = Append(chatMessages, [role |-> "assistant", content |-> Apology])
  /\ isLoading' = FALSE
  /\ posts' = RemoveAt(posts, i)
  /\ UNCHANGED <<chatInput, directPosts>>
  /\ UNCHANGED <<page, dash>>

ChatSettle == \E i \in 1..Len(posts) : ChatResolved(i) \/ ChatRejected(i)
RouteReceive == \E i \in 1..Len(posts) : PostReceive(i)
RouteResume == \E i \in 1..Len(posts), o \in OllamaOutcomes : OllamaSettle(i, o)

\* the chat of the page and the route serving it
TurnNext ==
  \/ \E text \in ChatInputs : TypeChat(text)
  \/ \E question \in QuickQuestions : handleQuickQuestion(question)
  \/ handleSendMessage
  \/ \E i \in 1..Len(posts) : PostReceive(i)
  \/ \E i \in 1..Len(posts), o \in OllamaOutcomes : OllamaSettle(i, o)
  \/ \E i \in 1..Len(posts) : ChatResolved(i)
  \/ \E i \in 1..Len(posts) : ChatRejected(i)

\* the same with the requests of other callers
ChatNext ==
  \/ TurnNext
  \/ \E body \in DirectBodies : DirectPost(body)
  \/ \E i \in 1..Len(posts) : DirectDone(i)

ChatSpec == Init /\ [][ChatNext]_vars

\* every exchange of the page makes progress: the request reaches the
\* route, the fetch settles, and the continuation of handleSendMessage
\* runs.  The route keeps no state between requests, so the requests of
\* other callers are left out here.
ChatFairSpec ==
  /\ Init /\ [][TurnNext]_vars
  /\ WF_vars(RouteReceive) /\ WF_vars(RouteResume) /\ WF_vars(ChatSettle)

\* the event loop runs a due timer callback and a settled request's
\* continuation, and time passes
FairSpec ==
  Spec /\ WF_vars(Tick) /\ WF_vars(Elapse) /\ WF_vars(DataSettle) /\ WF_vars(PredictSettle)

TypeOK ==
  /\ phase \in {"rendered", "mounted", "unmounted"}
  /\ interval \in BOOLEAN
  /\ clock \in 0..(intervalMs + StepMs)
  /\ loadingData \in BOOLEAN
  /\ loadingPredict \in BOOLEAN
  /\ errorMsg \in AllMsgs \cup {NullMsg}
  /\ predict \in PredictBodies \cup {NullPredict}
  /\ ticks \in 0..MaxTicks

\* ------------------------------------------------------------------ claims

SettledStep(src) == lastEvent'.op = "settle" /\ lastEvent'.src = src
IssuingStep == dataCalls' # dataCalls \/ predictCalls' # predictCalls

\* C1: when one request of a poll cycle has failed and the other has
\* succeeded, the failed source's slice still has its value from before the
\* cycle, the other slice is the new response, and errorMsg is non-null.
C1_PartialFailureKeepsStaleSlice ==
  /\ (cur.data = "fail" /\ cur.predict = "ok") =>
        /\ dataRows = cur.preRows
        /\ predict = cur.predictGot
        /\ errorMsg # NullMsg
  /\ (cur.predict = "fail" /\ cur.data = "ok") =>
        /\ predict = cur.prePredict
        /\ dataRows = cur.dataRowsGot
        /\ errorMsg # NullMsg

\* second cycle: /data failed, /predict succeeded with a response that
\* differs from the first cycle's, and rows from the first cycle are shown
C1_Witness ==
  /\ cur.tick = 2
  /\ cur.data = "fail"
  /\ cur.predict = "ok"
  /\ cur.preRows # <<>>
  /\ cur.prePredict # NullPredict
  /\ cur.predictGot # cur.prePredict
  /\ dataRows = cur.preRows

\* C2: a completion of one source leaves the other source's slice and
\* loading flag unchanged, and issuing the requests changes neither slice.
C2_CompletionFramesOtherSource ==
  [][ /\ SettledStep("data") =>
           predict' = predict /\ loadingPredict' = loadingPredict
      /\ SettledStep("predict") =>
           dataRows' = dataRows /\ loadingData' = loadingData
      /\ IssuingStep => dataRows' = dataRows /\ predict' = predict ]_vars

\* a /data request has just failed while a /predict request is in flight and
\* an earlier prediction is held
C2_Witness ==
  /\ lastEvent = [op |-> "settle", src |-> "data", ok |-> FALSE]
  /\ pendingPredict # <<>>
  /\ loadingPredict
  /\ predict # NullPredict

\* C3: once a failure of source X has set errorMsg, a success of the other
\* source leaves it in place and a success of X resets it to null.
C3_SameSourceSuccessClearsError ==
  [][ (errorMsg # NullMsg /\ lastEvent'.op = "settle" /\ lastEvent'.ok) =>
        IF lastEvent'.src = lastFail.src
          THEN errorMsg' = NullMsg
          ELSE errorMsg' = errorMsg ]_vars

\* C4: every failed request writes its message to errorMsg, so errorMsg is
\* always the message of the most recently settled failure of either source.
C4_ErrorIsLatestFailure ==
  /\ errorMsg # NullMsg => errorMsg = lastFail.msg
  /\ lastFail.src # "none" => errorMsg = lastFail.msg

\* both requests of a cycle failed with different messages; /data settled
\* last and its message replaced the one of /predict
C4_Witness ==
  /\ cur.data = "fail"
  /\ cur.predict = "fail"
  /\ cur.first = "predict"
  /\ lastFail.src = "data"
  /\ lastFail.prev # NullMsg
  /\ lastFail.prev # lastFail.msg
  /\ errorMsg = lastFail.msg

\* C5: from the mount on, a source's loading flag is true exactly while a
\* request to that source is in flight.
C5_LoadingIffInFlight ==
  phase # "rendered" =>
    /\ loadingData <=> pendingData # <<>>
    /\ loadingPredict <=> pendingPredict # <<>>

\* in a later cycle the /data request has failed and its flag is down while
\* the /predict request is still in flight with its flag up
C5_Witness ==
  /\ cur.tick >= 2
  /\ cur.data = "fail"
  /\ cur.predict = "pending"
  /\ ~loadingData
  /\ loadingPredict

\* C6: requests are issued only by the mount and by a timer firing exactly
\* one interval after the previous one, one request per source in the same
\* step; no other step (a failure included) issues a request.
C6_RequestsOnlyAtMountAndTick ==
  [][ IssuingStep =>
        /\ dataCalls' = dataCalls + 1
        /\ predictCalls' = predictCalls + 1
        /\ Len(pendingData') = Len(pendingData) + 1
        /\ Len(pendingPredict') = Len(pendingPredict) + 1
        /\ phase' = "mounted"
        /\ phase = "rendered" \/ (clock >= intervalMs /\ clock < intervalMs + StepMs)
        /\ ticks' = ticks + 1 ]_vars

\* the timer fired for the second cycle after a request of the first failed
C6_Witness ==
  /\ lastEvent.op = "tick"
  /\ lastFail.src # "none"
  /\ dataCalls = 2
  /\ predictCalls = 2
  /\ clock = 0

\* C7: each source's response is in state as soon as that source settles,
\* also while the other request is in flight, and when both succeed the
\* state holds both responses whichever settled first.
C7_AppliedOnOwnCompletion ==
  /\ (cur.data = "ok" /\ cur.predict \in {"pending", "ok"}) => dataRows = cur.dataRowsGot
  /\ (cur.predict = "ok" /\ cur.data \in {"pending", "ok"}) => predict = cur.predictGot

\* /predict settled before /data, the reverse of the order of issue, and
\* both responses replaced what was shown before
C7_Witness ==
  /\ cur.tick = 2
  /\ cur.first = "predict"
  /\ cur.data = "ok"
  /\ cur.predict = "ok"
  /\ dataRows # cur.preRows
  /\ predict # cur.prePredict

\* C8: after the cleanup has run no request is issued.
C8_NoRequestAfterTeardown ==
  [][ phase = "unmounted" =>
        dataCalls' = dataCalls /\ predictCalls' = predictCalls ]_vars

\* the view was torn down, the instant the next firing was due has passed,
\* and the call counts are those of the cycles started before the teardown
C8_Witness ==
  /\ phase = "unmounted"
  /\ clock >= intervalMs
  /\ ticks < MaxTicks
  /\ dataCalls = ticks
  /\ predictCalls = ticks

C10_PollingSurvivesFailures ==
  /\ [][ticks' # ticks =>
         ticks' = ticks + 1 /\ dataCalls' = ticks' /\ predictCalls' = ticks']_vars
  /\ (phase = "mounted" /\ ticks < MaxTicks) ~>
        (phase = "unmounted" \/ (ticks = MaxTicks /\ dataCalls = MaxTicks /\ predictCalls = MaxTicks))

\* the third cycle started although every /predict request of the first two
\* cycles failed and no row is held
C10_Witness ==
  /\ phase = "mounted"
  /\ ticks = 3
  /\ lastEvent.op = "tick"
  /\ lastFail.src # "none"
  /\ dataRows = <<>>
  /\ predict = NullPredict

\* ------------------------------------------------- claims on derived values

HasRows(body) == body # NoBody /\ "data" \in DOMAIN body
SortedAscending(rows) ==
  \A i, j \in 1..Len(rows) : i < j => rows[i].timestamp <= rows[j].timestamp
NewestFirst(rows) ==
  \A i, j \in 1..Len(rows) : i < j => rows[i].timestamp >= rows[j].timestamp

\* C11: dataRows is exactly the row list of the last 2xx /data response and
\* predict exactly the last 2xx /predict response, nothing kept from earlier
\* polls, and every chart series has one point per row of that response.
C11_LastWriterWins ==
  /\ HasRows(lastOk.data) => dataRows = lastOk.data.data
  /\ lastOk.data = NoBody => dataRows = <<>>
  /\ lastOk.predict # NoBody => predict = lastOk.predict
  /\ lastOk.predict = NoBody => predict = NullPredict
  /\ (HasRows(lastOk.data) /\ ~shown.threw) =>
        /\ Len(shown.co2Series) = Len(lastOk.data.data)
        /\ Len(shown.nh3Series) = Len(lastOk.data.data)
        /\ Len(shown.ethanolSeries) = Len(lastOk.data.data)

\* two cycles in a row resolved for both sources, the second with a row list
\* of another length, and the chart has the new number of points
C11_Witness ==
  /\ cur.tick = 2
  /\ cur.data = "ok"
  /\ cur.predict = "ok"
  /\ cur.preRows # <<>>
  /\ dataRows # <<>>
  /\ Len(dataRows) # Len(cur.preRows)
  /\ cur.prePredict \notin {NullPredict, predict}
  /\ ~shown.threw
  /\ Len(shown.co2Series) = Len(dataRows)

\* C12: latest is the first row of the last 2xx /data response, null exactly
\* when that response had no row, and a failed /data request leaves it as it
\* was.
C12_LatestIsFirstRow ==
  /\ [](HasRows(lastOk.data) =>
          /\ lastOk.data.data # <<>> => latest(dataRows) = lastOk.data.data[1]
          /\ lastOk.data.data = <<>> <=> latest(dataRows) = Null)
  /\ [][ (SettledStep("data") /\ ~lastEvent'.ok) =>
            latest(dataRows') = latest(dataRows) ]_vars

\* the /data request of the second cycle failed and latest is still the
\* newest of the two rows received in the first cycle
C12_Witness ==
  /\ cur.tick = 2
  /\ cur.data = "fail"
  /\ HasRows(lastOk.data)
  /\ Len(lastOk.data.data) = 2
  /\ ~shown.threw
  /\ shown.latest = lastOk.data.data[1]
  /\ shown.latest # lastOk.data.data[2]

\* C13: a 2xx response without its payload field (no data array, no
\* prediction object) leaves the source's slice as it was and sets errorMsg.
C13_MalformedBodyIsFailure ==
  [][ /\ (SettledStep("data") /\ lastEvent'.ok /\ ~HasRows(lastOk'.data)) =>
            dataRows' = dataRows /\ errorMsg' # NullMsg
      /\ (SettledStep("predict") /\ lastEvent'.ok
            /\ "prediction" \notin DOMAIN lastOk'.predict) =>
            predict' = predict /\ errorMsg' # NullMsg ]_vars

\* C14: no render throws, whatever the two sources settled with.
C14_RenderNeverThrows == ~shown.threw

\* C15: for a prediction object without probability, confidence or rsl_hours
\* the card of the missing quantity shows the placeholder, not a number, and
\* the render does not throw.
C15_MissingFieldShowsPlaceholder ==
  (predict # NullPredict /\ "prediction" \in DOMAIN predict /\ ~loadingPredict) =>
    /\ ~shown.threw
    /\ "probability" \notin DOMAIN predict.prediction => shown.statusLine = Dash
    /\ "confidence" \notin DOMAIN predict.prediction => shown.statusLine = Dash
    /\ rslHours(predict) = Null =>
          shown.shelfLife = Dash /\ shown.spoilText = WaitingPrediction

\* C16: while predict is null, rslDays, rslRemHours and spoilDate are null
\* and the Shelf Life card shows its placeholders, never a day/hour pair.
C16_NoPredictionNoShelfLife ==
  predict = NullPredict =>
    /\ ~shown.threw
    /\ shown.rslDays = Null
    /\ shown.rslRemHours = Null
    /\ shown.spoilDate = Null
    /\ shown.shelfLife \in {Dots, Dash}
    /\ shown.spoilText = WaitingPrediction

\* every /predict request so far failed, none is in flight, and the card
\* shows the dash
C16_Witness ==
  /\ predict = NullPredict
  /\ cur.predict = "fail"
  /\ ~loadingPredict
  /\ shown.shelfLife = Dash
  /\ shown.spoilText = WaitingPrediction

\* C17: rslDays is the whole number of 24-hour days in rsl_hours and
\* rslRemHours the rest rounded to the nearest hour (halves up); 30 hours
\* give 1 day 6 hours, 0 hours give 0 days 0 hours.
C17_ShelfLifeDecomposition ==
  (~shown.threw /\ rslHours(predict) # Null) =>
    LET t == predict.prediction.raw_prediction.rsl_hours
        d == shown.rslDays.num
        r == shown.rslRemHours.num
    IN /\ 240 * d <= t /\ t < 240 * (d + 1)
       /\ 10 * r - 5 <= t - 240 * d /\ t - 240 * d < 10 * r + 5
       /\ t = 300 => d = 1 /\ r = 6
       /\ t = 0 => d = 0 /\ r = 0

\* 30 hours were received and the card, rendered again, shows 1d 6h
C17_Witness ==
  /\ lastEvent.op = "toggle"
  /\ rslHours(predict) = Num(300)
  /\ shown.shelfLife = [days |-> 1, hours |-> 6]

\* C18: rslRemHours is always in 0..23.
C18_RemainderBelow24 ==
  (~shown.threw /\ shown.rslRemHours # Null) => shown.rslRemHours.num \in 0..23

\* C19: rowsAsc is dataRows read backwards, row for row, and reading it
\* backwards again gives dataRows.
C19_RowsAscIsReverse ==
  ~shown.threw =>
    /\ Len(shown.rowsAsc) = Len(dataRows)
    /\ \A j \in 1..Len(dataRows) : shown.rowsAsc[j] = dataRows[Len(dataRows) + 1 - j]
    /\ rowsAsc(shown.rowsAsc) = dataRows

\* three different rows, not in the order of their timestamps, rendered again
C19_Witness ==
  /\ lastEvent.op = "toggle"
  /\ ~shown.threw
  /\ Len(dataRows) = 3
  /\ Cardinality({dataRows[j] : j \in 1..3}) = 3
  /\ ~NewestFirst(dataRows)
  /\ shown.rowsAsc[1] = dataRows[3]

\* C20 as stated: rowsAsc is in non-decreasing timestamp order whatever the
\* order of the rows in the response.
C20_RowsAscSortedAlways ==
  ~shown.threw => SortedAscending(shown.rowsAsc)

\* C20 as amended: rowsAsc is in non-decreasing timestamp order for every
\* response whose rows are newest first.
C20_RowsAscSortedIfNewestFirst ==
  (~shown.threw /\ NewestFirst(dataRows)) => SortedAscending(shown.rowsAsc)

\* three rows with different timestamps, newest first, charted oldest first
C20_Witness ==
  /\ lastEvent.op = "toggle"
  /\ ~shown.threw
  /\ Len(dataRows) = 3
  /\ dataRows[1].timestamp > dataRows[2].timestamp
  /\ dataRows[2].timestamp > dataRows[3].timestamp
  /\ shown.rowsAsc[1].timestamp < shown.rowsAsc[3].timestamp
\* ---- C21
\* C21: for every probability p in [0, 1] of the prediction held, the
\* percentage displayed is a whole number in 0..100 nearest to 100 * p (87 for
\* 0.8734), and the confidence displayed is the confidence received.
C21_ProbabilityRoundedConfidenceKept ==
  (/\ lastEvent.op = "toggle"
   /\ predictionOf(predict) # Null
   /\ "probability" \in DOMAIN predict.prediction) =>
    /\ ~shown.threw
    /\ shown.probabilityPct # Null
    /\ LET x == predict.prediction.probability
           pct == shown.probabilityPct.num
       IN /\ pct \in 0..100
          /\ 100 * pct - 50 <= x
          /\ x <= 100 * pct + 50
          /\ (x = 8734 => pct = 87)
    /\ ("confidence" \in DOMAIN predict.prediction =>
          /\ shown.confidencePct = Num(predict.prediction.confidence)
          /\ shown.statusLine = [prob |-> shown.probabilityPct.num,
                                 confidence |-> predict.prediction.confidence])

C21_Witness ==
  /\ lastEvent.op = "toggle"
  /\ predictionOf(predict) # Null
  /\ "probability" \in DOMAIN predict.prediction
  /\ predict.prediction.probability = 8750
  /\ predict.prediction.confidence = 47
  /\ shown.statusLine = [prob |-> 88, confidence |-> 47]

\* ---- C22
\* the texts of the five sensor cards for a row, and the five on screen
CardsOfRow(r) ==
  [temperatureText |-> [celsiusTenths |-> ToFixed1(r.temperatureC)],
   humidityText |-> [percent |-> r.humidity],
   co2Text |-> [ppm |-> r.ppm_co2],
   nh3Text |-> [ppm |-> r.ppm_nh3],
   ethanolText |-> [ppm |-> r.ppm_c2h5oh]]

SensorCardsShown ==
  [temperatureText |-> shown.temperatureText,
   humidityText |-> shown.humidityText,
   co2Text |-> shown.co2Text,
   nh3Text |-> shown.nh3Text,
   ethanolText |-> shown.ethanolText]

\* C22: once a sensor-data poll has succeeded with rows, every later render
\* shows the values of its newest row on the five sensor cards, a re-poll in
\* flight or failed included; likewise the Status and Shelf Life cards show
\* the values of the last prediction received.
C22_LastGoodAlwaysShown ==
  ~shown.threw =>
    /\ (HasRows(lastOk.data) /\ Len(lastOk.data.data) > 0 =>
          SensorCardsShown = CardsOfRow(lastOk.data.data[1]))
    /\ (lastOk.predict \in PredictBodies /\ predictionOf(lastOk.predict) # Null =>
          /\ shown.classificationText = [text |-> lastOk.predict.prediction.classification]
          /\ shown.statusLine = StatusLine(FALSE, lastOk.predict)
          /\ shown.shelfLife = ShelfLifeText(FALSE, lastOk.predict))

AllOfCycle(pending, t) ==
  \A j \in 1..Len(pending) : pending[j].tick = t /\ pending[j].age < timeoutMs + StepMs

\* C24: a step that issues requests (mount or tick) finds no request in
\* flight, so after every step at most one request per source is in flight
\* and it belongs to the latest poll cycle: no response of an older cycle is
\* left to overwrite a newer result.
C24_OneRequestPerSourceInFlight ==
  [][ /\ (IssuingStep => pendingData = <<>> /\ pendingPredict = <<>>)
      /\ Len(pendingData') <= 1
      /\ Len(pendingPredict') <= 1
      /\ AllOfCycle(pendingData', ticks')
      /\ AllOfCycle(pendingPredict', ticks')
    ]_vars

C24_Witness ==
  /\ ticks = 2
  /\ lastFail.msg = TimeoutMsg
  /\ Len(pendingData) = 1
  /\ pendingData[1].tick = 2
  /\ pendingData[1].age >= timeoutMs
  /\ Len(pendingPredict) = 1

\* ---- C25
\* C25: no two entries of boxes have the same id, after any sequence of
\* saves and deletions.
C25_BoxIdsUnique ==
  \A j, k \in 1..Len(boxes) : j # k => boxes[j].id # boxes[k].id

\* ---- C26
\* C26: boxes never holds more than boxLimit entries; the add modal goes
\* from closed to open only while fewer than boxLimit boxes exist, and a box
\* is added only by a save, one box at a time, which closes the modal.
C26_AtMostFourBoxes ==
  [][ /\ Len(boxes') <= boxLimit
      /\ (~showAddModal /\ showAddModal' => Len(boxes) < boxLimit)
      /\ (Len(boxes') > Len(boxes) =>
            /\ showAddModal
            /\ ~showAddModal'
            /\ Len(boxes') = Len(boxes) + 1)
    ]_vars

C26_Witness ==
  /\ Len(boxes) = boxLimit
  /\ ~showAddModal
  /\ boxes[1].id = 2
  /\ boxes[boxLimit].description = <<"b">>
  /\ showManageModal
  /\ editDescription = <<"a">>

\* ---- C27
\* C27: at most one /api/chat request of the page is in flight, isLoading is
\* true exactly while one is, and a user message is appended and a request
\* sent only by a step that starts with isLoading false and a non-blank
\* input; that step appends one message and sends one request.
C27_OneChatRequestInFlight ==
  [][ /\ Len(ChatPosts(posts')) <= 1
      /\ (isLoading' <=> ChatPosts(posts') # <<>>)
      /\ (\/ Len(ChatPosts(posts')) > Len(ChatPosts(posts))
          \/ UserTurns(chatMessages') > UserTurns(chatMessages)) =>
            /\ ~isLoading
            /\ ~Blank(chatInput)
            /\ Len(ChatPosts(posts')) = Len(ChatPosts(posts)) + 1
            /\ UserTurns(chatMessages') = UserTurns(chatMessages) + 1
    ]_vars

C27_Witness ==
  /\ isLoading
  /\ UserTurns(chatMessages) = 2
  /\ Len(ChatPosts(posts)) = 1
  /\ ChatPosts(posts)[1].stage = "ollama"
  /\ chatInput = <<>>

\* ---- C28
Alternates(msgs) ==
  \A j \in 1..Len(msgs) : msgs[j].role = (IF j % 2 = 1 THEN "assistant" ELSE "user")

\* the replies a 2xx answer of the route can carry
RouteReplies == { PostFinish(o).json.response : o \in { x \in OllamaOutcomes : PostFinish(x).status = 200 } }

Readable(body) == "malformed" \notin DOMAIN body /\ body # Null

\* the object has no message, or a null or empty one
MessageMissing(body) ==
  "message" \notin DOMAIN body \/ body.message = Null \/ body.message = Str(<<>>)

\* the history of the object can be walked: absent, or an array without a
\* null entry
HistoryWalkable(body) ==
  "conversationHistory" \in DOMAIN body =>
    /\ body.conversationHistory # Null
    /\ "arr" \in DOMAIN body.conversationHistory
    /\ \A j \in 1..Len(body.conversationHistory.arr) : body.conversationHistory.arr[j] # Null

\* C29: every POST that has run to its end has answered with status 200,
\* 400 or 500: 400 'Message is required' without a call to Ollama when the
\* message is missing or empty; 500 when the body cannot be read, the
\* history cannot be walked, the fetch is rejected, the reply is not OK or
\* its body is not a JSON object; otherwise 200 with the reply's response,
\* or 'No response from model' when it has none.
C29_PostAlwaysAnswers ==
  \A i \in 1..Len(posts) :
    LET q == posts[i] IN
      /\ q.stage # "answered" => q.response = NoBody
      /\ q.stage = "answered" =>
           /\ q.response.status \in {200, 400, 500}
           /\ IF ~Readable(q.body) THEN q.response.status = 500 /\ ~q.fetched
              ELSE IF MessageMissing(q.body)
                THEN q.response = MessageRequired /\ ~q.fetched
              ELSE IF ~HistoryWalkable(q.body) THEN q.response.status = 500 /\ ~q.fetched
              ELSE /\ q.fetched
                   /\ IF q.outcome.kind = "rejected" THEN q.response.status = 500
                      ELSE IF ~q.outcome.ok THEN q.response.status = 500
                      ELSE IF q.outcome.parse = "invalid" THEN q.response.status = 500
                      ELSE IF q.outcome.data = Null THEN q.response.status = 500
                      ELSE /\ q.response.status = 200
                           /\ q.response.json.response =
                                (IF "response" \in DOMAIN q.outcome.data
                                      /\ q.outcome.data.response # <<>>
                                   THEN q.outcome.data.response
                                   ELSE NoResponseFromModel)

C29_Witness ==
  \E i \in 1..Len(posts) :
    /\ posts[i].from = "direct"
    /\ posts[i].stage = "answered"
    /\ posts[i].fetched
    /\ posts[i].outcome.kind = "http"
    /\ ~posts[i].outcome.ok
    /\ posts[i].response = FailedToGetResponse

\* ---- C30
\* the entries of a history that the prompt keeps
Kept(items) == SelectSeq(items, LAMBDA m : m.role \in {"user", "assistant"})

\* C30: the prompt handed to fetch is the system line, one line per user or
\* assistant entry of the history in the order received (other roles
\* skipped), the current message as the last User line, and the open
\* Assistant line; for a request of the page the history is chatMessages
\* without the message just appended, so the prompt has one User line per
\* user message of the chat.
C30_PromptHasMessageOnce ==
  \A i \in 1..Len(posts) :
    LET q == posts[i]
        items == IF "conversationHistory" \in DOMAIN q.body
                   THEN q.body.conversationHistory.arr ELSE <<>>
        n == Len(q.fullPrompt)
    IN q.fetched =>
         /\ n = Len(Kept(items)) + 3
         /\ q.fullPrompt[1] = SystemLine
         /\ \A j \in 1..Len(Kept(items)) :
              q.fullPrompt[j + 1] =
                [speaker |-> IF Kept(items)[j].role = "user" THEN "User" ELSE "Assistant",
                 text |-> Kept(items)[j].content]
         /\ q.fullPrompt[n - 1] = [speaker |-> "User", text |-> q.body.message.str]
         /\ q.fullPrompt[n] = AssistantOpen
         /\ q.from = "chat" =>
              /\ items = HistoryOf(SubSeq(chatMessages, 1, Len(chatMessages) - 1))
              /\ q.body.message.str = chatMessages[Len(chatMessages)].content
              /\ Len(SelectSeq(q.fullPrompt, LAMBDA l : l.speaker = "User"))
                   = UserTurns(chatMessages)

C30_Witness ==
  \E i \in 1..Len(posts) :
    /\ posts[i].from = "chat"
    /\ posts[i].stage = "ollama"
    /\ UserTurns(chatMessages) = 2
    /\ chatMessages[3].content = Apology
    /\ posts[i].fullPrompt =
         <<SystemLine,
           [speaker |-> "Assistant", text |-> Greeting],
           [speaker |-> "User", text |-> <<"hi">>],
           [speaker |-> "Assistant", text |-> Apology],
           [speaker |-> "User", text |-> <<"hi">>],
           AssistantOpen>>

====
